---- MODULE Spec2Model ----
(***************************************************************************)
(* A model of the chat application in src/main.py: the persisted tables    *)
(* (users, chat_rooms, room_members, messages), the module-level registry  *)
(* dictionaries (user_sockets, active_sessions), the single global ChatApp *)
(* instance, and the page handlers that act on them.                       *)
(*                                                                         *)
(* A page is one browser tab: it has its own storage (app.storage.user),   *)
(* and, once chat_page has run for it, the closure variables username and  *)
(* session_id of that run.  The page's transport connection is identified  *)
(* with the page itself.                                                   *)
(***************************************************************************)
EXTENDS Integers, Sequences, FiniteSets, TLC

\* ------------------------------------------------------------------ bounds
MaxPages == 2
MaxSessions == 2
MaxMessages == 2
MaxClock == 1
MaxJoins == 2

Pages == 1..MaxPages
None == "None"

\* The rows the users table holds when the application starts (the SQLite
\* file of DATABASE_URL outlives the process).
Usernames == {"alice", "bob"}
UserId(u) == IF u = "alice" THEN 1 ELSE 2

\* pwd_context.hash and pwd_context.verify: a hash verifies the password it
\* was made from and no other
EmailOf(u) == IF u = "alice" THEN "a@x" ELSE "b@x"

Passwords == {"pw1", "pw2"}
PasswordOf(u) == IF u = "bob" THEN "pw2" ELSE "pw1"
Hash(password) == <<"bcrypt", password>>
Verify(password, hashed) == hashed = Hash(password)

\* ------------------------------------------------------------ room names
\* A room name is a sequence of characters of a small alphabet.
Letters == {"a", "b", "c", "A", "B"}
Whitespace == {" "}
RoomNames ==
    { <<"A", " ", "b">>, <<"a", "-", "b">>, <<" ", "a", "_", "B">>,
      <<"c">>, <<" ">> }

ToLower(ch) == CASE ch = "A" -> "a" [] ch = "B" -> "b" [] OTHER -> ch

RECURSIVE LStrip(_)
LStrip(s) ==
    IF s # << >> /\ Head(s) \in Whitespace THEN LStrip(Tail(s)) ELSE s

RECURSIVE RStrip(_)
RStrip(s) ==
    IF s # << >> /\ s[Len(s)] \in Whitespace
    THEN RStrip(SubSeq(s, 1, Len(s) - 1)) ELSE s

\* str.strip()
Strip(s) == RStrip(LStrip(s))

\* slugify, first pass: lower-case, every disallowed character becomes "-"
SlugChars(s) ==
    [i \in 1..Len(s) |-> IF s[i] \in Letters THEN ToLower(s[i]) ELSE "-"]

\* slugify, second pass: runs of "-" collapse to one
RECURSIVE Collapse(_)
Collapse(s) ==
    IF Len(s) < 2 THEN s
    ELSE IF s[1] = "-" /\ s[2] = "-" THEN Collapse(Tail(s))
    ELSE <<s[1]>> \o Collapse(Tail(s))

RECURSIVE LTrimDash(_)
LTrimDash(s) == IF s # << >> /\ Head(s) = "-" THEN LTrimDash(Tail(s)) ELSE s

RECURSIVE RTrimDash(_)
RTrimDash(s) ==
    IF s # << >> /\ s[Len(s)] = "-"
    THEN RTrimDash(SubSeq(s, 1, Len(s) - 1)) ELSE s

slugify(s) == RTrimDash(LTrimDash(Collapse(SlugChars(s))))

\* ------------------------------------------------------------------ state
VARIABLES
    users,            \* table users: rows [id, username, is_online, last_seen]
    chat_rooms,       \* table chat_rooms: rows [id, name, slug, created_by]
    room_members,     \* table room_members: rows [id, room_id, user_id]
    messages,         \* table messages: rows [id, content, sender_id, room_id, created_at]
    user_sockets,     \* dict username -> set of sockets, in insertion order
    active_sessions,  \* dict session_id -> username
    chat_app,         \* the global ChatApp instance
    storage,          \* app.storage.user of each page
    page,             \* chat_page's run for each page: closure variables, connection
    task,             \* the handler in progress for each page
    now,              \* datetime.utcnow()
    next_sid,         \* the next uuid4 drawn for a session
    joins,            \* join_new_room calls started
    trace             \* what the latest step did (calls, broadcasts, reads)

vars ==
    << users, chat_rooms, room_members, messages, user_sockets,
       active_sessions, chat_app, storage, page, task, now, next_sid,
       joins, trace >>

\* ----------------------------------------------------------------- tables
NoId == 0

Max(S) == CHOOSE x \in S : \A y \in S : y <= x

\* an Integer primary key: one more than the largest id of the table
NextId(table) == IF table = {} THEN 1 ELSE Max({r.id : r \in table}) + 1

\* db.query(User).filter(User.username == username): .first() is any row of it
UsersNamed(username) == {u \in users : u.username = username}

RoomsWithSlug(slug) == {r \in chat_rooms : r.slug = slug}

RoomsWithAnyId(id) == chat_rooms

RoomsWithId(id) == {r \in chat_rooms : r.id = id}

Memberships(user_id, room_id) ==
    {m \in room_members : m.user_id = user_id /\ m.room_id = room_id}

\* the unique index on chat_rooms.slug: an insert of a taken slug is refused
SlugTakenNever(slug) == FALSE

SlugTaken(slug) == RoomsWithSlug(slug) # {}

\* ------------------------------------------------- the registry dictionary
\* user_sockets is a sequence of entries [username, sockets]: a dict keeps its
\* keys in insertion order, and no key is ever deleted.
HasKey(reg, username) == \E i \in 1..Len(reg) : reg[i].username = username

KeyIndex(reg, username) == CHOOSE i \in 1..Len(reg) : reg[i].username = username

SocketsOf(reg, username) ==
    IF HasKey(reg, username) THEN reg[KeyIndex(reg, username)].sockets ELSE {}

\* user_sockets[username] = set()
AddKey(reg, username) == Append(reg, [username |-> username, sockets |-> {}])

ClearNothing(reg, username) == reg

\* user_sockets[username].clear()
ClearKey(reg, username) ==
    [reg EXCEPT ![KeyIndex(reg, username)].sockets = {}]

DiscardNothing(reg, username, socket) == reg

\* user_sockets[username].discard(socket)
Discard(reg, username, socket) ==
    IF HasKey(reg, username)
    THEN [reg EXCEPT ![KeyIndex(reg, username)].sockets = @ \ {socket}]
    ELSE reg

\* ------------------------------------------------------------------ trace
\* One entry of trace: an observable thing the latest step did.
E(op, pg, username, flag, room, msg, socks, view) ==
    [op |-> op, page |-> pg, username |-> username, flag |-> flag,
     room |-> room, msg |-> msg, socks |-> socks, view |-> view,
     targets |-> {}, failed |-> {}]

\* a broadcast loop of the handler of page p has ended: the sockets it took
\* from the registry, those it delivered the event to, those whose send raised
BroadcastEnd(p, ev, room_id, targets, delivered, failed) ==
    [E("broadcast_end", p, ev.username, ev.flag, room_id, ev.msg, delivered,
       << >>) EXCEPT !.targets = targets, !.failed = failed]

Called(username, is_online) ==
    E("update_user_status", 0, username, is_online, NoId, NoId, {}, << >>)

StatusEvent(username, is_online) ==
    E("user_status", 0, username, is_online, NoId, NoId, {}, << >>)

\* ----------------------------------------------------------------- events
NoEvent == [type |-> "none", msg |-> NoId, username |-> None, flag |-> FALSE]

\* message_data of send_message
NewMessage(id) ==
    [type |-> "new_message", msg |-> id, username |-> None, flag |-> FALSE]

\* status_data of update_user_status
UserStatus(username, is_online) ==
    [type |-> "user_status", msg |-> NoId, username |-> username,
     flag |-> is_online]

\* --------------------------------------------------------------- handlers
\* The handler of a page that is suspended at an await, and the outcome of the
\* page's latest handler.
IdleTask ==
    [pc |-> "idle", result |-> "none", name |-> << >>, slug |-> << >>,
     user_id |-> NoId, room_id |-> NoId, event |-> NoEvent,
     users_left |-> << >>, cur_user |-> None, socks_left |-> {},
     idx |-> 0, size |-> 0, targets |-> {}, delivered |-> {}, failed |-> {},
     email |-> None, password |-> None]

Finished(result) == [IdleTask EXCEPT !.result = result]

Idle(p) == task[p].pc = "idle"

Open(p) == page[p].st \in {"loaded", "connected"}

\* The rows the room tables hold when the application starts: alice and bob
\* are in room 1, bob alone is in room 2.
InitialRooms ==
    {[id |-> 1, name |-> <<"c">>, slug |-> <<"c">>, created_by |-> 1],
     [id |-> 2, name |-> <<"B">>, slug |-> <<"b">>, created_by |-> 2]}

InitialMembers ==
    {[id |-> 1, room_id |-> 1, user_id |-> 1],
     [id |-> 2, room_id |-> 1, user_id |-> 2],
     [id |-> 3, room_id |-> 2, user_id |-> 2]}

Init ==
    /\ users = {[id |-> UserId(u), username |-> u,
                 email |-> EmailOf(u),
                 hashed_password |-> Hash(PasswordOf(u)),
                 is_online |-> FALSE, last_seen |-> 0] : u \in Usernames}
    /\ chat_rooms = InitialRooms
    /\ room_members = InitialMembers
    /\ messages = {}
    /\ user_sockets = << >>
    /\ active_sessions = << >>
    /\ chat_app = [current_user |-> None, current_room |-> NoId,
                   message_container |-> FALSE, room_list_container |-> FALSE,
                   message_input |-> FALSE]
    /\ storage = [p \in Pages |-> [session_id |-> NoId, username |-> None]]
    /\ page = [p \in Pages |-> [st |-> "none", username |-> None,
                                session_id |-> NoId, room |-> NoId]]
    /\ task = [p \in Pages |-> IdleTask]
    /\ now = 0
    /\ next_sid = 1
    /\ joins = 0
    /\ trace = << >>


\* ---------------------------------------------------------------- presence
\* The iterator of user_sockets.items(): each next() first raises
\* RuntimeError when the dict has changed size since the iterator was made,
\* then ends past the last entry; an entry with no socket has no await, so
\* the loop goes on to the next entry within the same step.
RECURSIVE DictNext(_, _, _)
DictNext(reg, i, size) ==
    IF Len(reg) # size THEN [r |-> "RuntimeError", i |-> i]
    ELSE IF i > Len(reg) THEN [r |-> "done", i |-> i]
    ELSE IF reg[i].sockets # {} THEN [r |-> "send", i |-> i]
    ELSE DictNext(reg, i + 1, size)

SetStatus(table, username, is_online) ==
    {IF u.username = username
     THEN [u EXCEPT !.is_online = is_online, !.last_seen = now]
     ELSE u : u \in table}

\* The status loop of update_user_status from entry i on, for the handler of
\* page p: up to its next await, or to its end.
StatusLoop(p, reg, i, size, ev, targets, delivered, failed, pre) ==
    LET n == DictNext(reg, i, size) IN
    /\ user_sockets' = reg
    /\ IF n.r = "send"
       THEN /\ task' = [task EXCEPT ![p] =
                   [IdleTask EXCEPT !.pc = "status_send", !.event = ev,
                       !.idx = n.i, !.size = size,
                       !.socks_left = reg[n.i].sockets,
                       !.targets = targets \cup reg[n.i].sockets,
                       !.delivered = delivered, !.failed = failed]]
            /\ trace' = pre
       ELSE /\ task' = [task EXCEPT ![p] =
                   Finished(IF n.r = "done" THEN "ok" ELSE n.r)]
            /\ trace' = Append(pre,
                   BroadcastEnd(p, ev, NoId, targets, delivered, failed))

\* update_user_status(username, is_online), called by the handler of page p
\* once it has left the registry as reg and done what pre records
update_user_status(p, reg, username, is_online, pre) ==
    IF UsersNamed(username) = {}
    THEN /\ users' = users
         /\ user_sockets' = reg
         /\ task' = [task EXCEPT ![p] = Finished("ok")]
         /\ trace' = pre \o <<Called(username, is_online)>>
    ELSE /\ users' = SetStatus(users, username, is_online)
         /\ StatusLoop(p, reg, 1, Len(reg), UserStatus(username, is_online),
                       {}, {}, {},
                       pre \o <<Called(username, is_online),
                                StatusEvent(username, is_online)>>)

authenticate_user_by_name(username, password) == UsersNamed(username)

\* authenticate_user: the user of that name, if the password verifies
authenticate_user(username, password) ==
    {u \in UsersNamed(username) : Verify(password, u.hashed_password)}

\* error_label.text = text on page p
ErrorLabel(p, text) ==
    E("error_label", p, None, FALSE, NoId, NoId, {}, <<text>>)

\* handle_login has read username_input.value and password_input.value
LoginAttempt(p, username, password) ==
    E("handle_login", p, username, FALSE, NoId, NoId, {}, <<password>>)

\* ------------------------------------------------------------ registration
\* the values typed into the registration form; "" is a field left empty
RegisterNames == {"", "alice", "carol", "dave"}

Emails == {"", "a@x", "c@x"}

RegisterPasswords == {"abc", "secret"}

\* len(password_input.value)
PasswordLength(password) ==
    CASE password = "" -> 0 [] password = "secret" -> 6 [] OTHER -> 3

MinPasswordLength == 6

\* handle_register has read username_input.value and email_input.value
RegisterAttempt(p, username, email) ==
    E("handle_register", p, username, FALSE, NoId, NoId, {}, <<email>>)

\* create_user commits the row of the registration of page p
CreateAttempt(p, username, email) ==
    E("create_user", p, username, FALSE, NoId, NoId, {}, <<email>>)

\* register_page.handle_register up to the call of create_user: the
\* validation, then the query for a user of that username or email
HandleRegister(p, username, email, password, confirm) ==
    /\ page[p].st \in {"none", "closed"}
    /\ Idle(p)
    /\ LET attempt == RegisterAttempt(p, username, email)
           refused(text) ==
               /\ task' = [task EXCEPT ![p] = Finished("ok")]
               /\ trace' = <<attempt, ErrorLabel(p, text)>>
       IN IF username = "" \/ email = "" \/ password = ""
          THEN refused("Please fill in all required fields")
          ELSE IF password # confirm
          THEN refused("Passwords do not match")
          ELSE IF PasswordLength(password) < MinPasswordLength
          THEN refused("Password must be at least 6 characters")
          ELSE IF \E u \in users : u.username = username \/ u.email = email
          THEN refused("Username or email already exists")
          ELSE /\ task' = [task EXCEPT ![p] =
                      [IdleTask EXCEPT !.pc = "create_user",
                          !.cur_user = username, !.email = email,
                          !.password = password]]
               /\ trace' = <<attempt>>
    /\ UNCHANGED << users, chat_rooms, room_members, messages, user_sockets,
                    active_sessions, chat_app, storage, page, now, next_sid,
                    joins >>

UserTakenNever(username, email) == FALSE

\* the unique indexes on users.username and users.email: an insert of a
\* taken username or email is refused
UserTaken(username, email) ==
    \E u \in users : u.username = username \/ u.email = email

\* create_user: db.add(db_user); db.commit(); then the labels of
\* handle_register, or its except branch
CreateUser(p) ==
    /\ task[p].pc = "create_user"
    /\ LET t == task[p]
           attempt == CreateAttempt(p, t.cur_user, t.email)
       IN IF UserTaken(t.cur_user, t.email)
          THEN /\ users' = users
               /\ trace' = <<attempt,
                             ErrorLabel(p, "Registration failed: IntegrityError")>>
          ELSE /\ users' = users \cup
                      {[id |-> NextId(users), username |-> t.cur_user,
                        email |-> t.email,
                        hashed_password |-> Hash(t.password),
                        is_online |-> FALSE, last_seen |-> now]}
               /\ trace' = <<attempt,
                             E("success_label", p, None, FALSE, NoId, NoId,
                               {}, <<"Registration successful! You can now login.">>)>>
    /\ task' = [task EXCEPT ![p] = Finished("ok")]
    /\ UNCHANGED << chat_rooms, room_members, messages, user_sockets,
                    active_sessions, chat_app, storage, page, now, next_sid,
                    joins >>

\* login_page.handle_login
HandleLogin(p, username, password) ==
    /\ page[p].st \in {"none", "closed"}
    /\ Idle(p)
    /\ IF authenticate_user(username, password) # {}
       THEN /\ next_sid <= MaxSessions
            /\ active_sessions' = (next_sid :> username) @@ active_sessions
            /\ storage' = [storage EXCEPT ![p] =
                   [session_id |-> next_sid, username |-> username]]
            /\ next_sid' = next_sid + 1
            /\ update_user_status(p, user_sockets, username, TRUE,
                   <<LoginAttempt(p, username, password)>>)
       ELSE /\ trace' = <<LoginAttempt(p, username, password),
                          ErrorLabel(p, "Invalid username or password")>>
            /\ UNCHANGED << users, user_sockets, active_sessions, storage,
                            task, next_sid >>
    /\ UNCHANGED << chat_rooms, room_members, messages, chat_app, page, now,
                    joins >>

\* the Logout button of chat_page
Logout(p) ==
    /\ Open(p)
    /\ Idle(p)
    /\ active_sessions' =
           [s \in DOMAIN active_sessions \ {page[p].session_id} |->
               active_sessions[s]]
    /\ storage' = [storage EXCEPT ![p] =
           [session_id |-> NoId, username |-> None]]
    /\ trace' = << >>
    /\ UNCHANGED << users, chat_rooms, room_members, messages, user_sockets,
                    chat_app, page, task, now, next_sid, joins >>

\* chat_page: the authentication check, then the page is built
ChatPage(p) ==
    /\ page[p].st \in {"none", "closed"}
    /\ Idle(p)
    /\ LET session_id == storage[p].session_id
           username == storage[p].username
       IN IF \/ session_id = NoId
             \/ session_id \notin DOMAIN active_sessions
             \/ active_sessions[session_id] # username
          THEN /\ trace' = <<E("navigate_login", p, None, FALSE, NoId, NoId,
                               {}, << >>)>>
               /\ UNCHANGED << chat_app, page >>
          ELSE /\ chat_app' = [chat_app EXCEPT
                      !.current_user = username,
                      !.room_list_container = TRUE,
                      !.message_container = TRUE,
                      !.message_input = TRUE]
               /\ page' = [page EXCEPT ![p] =
                      [st |-> "loaded", username |-> username,
                       session_id |-> session_id, room |-> NoId]]
               /\ trace' = << >>
    /\ UNCHANGED << users, chat_rooms, room_members, messages, user_sockets,
                    active_sessions, storage, task, now, next_sid, joins >>

\* chat_page.on_connect
OnConnect(p) ==
    /\ page[p].st = "loaded"
    /\ Idle(p)
    /\ page' = [page EXCEPT ![p].st = "connected"]
    /\ update_user_status(p,
           IF HasKey(user_sockets, page[p].username) THEN user_sockets
           ELSE AddKey(user_sockets, page[p].username),
           page[p].username, TRUE, << >>)
    /\ UNCHANGED << chat_rooms, room_members, messages, active_sessions,
                    chat_app, storage, now, next_sid, joins >>

\* chat_page.on_disconnect
OnDisconnect(p) ==
    /\ page[p].st = "connected"
    /\ Idle(p)
    /\ page' = [page EXCEPT ![p].st = "closed"]
    /\ update_user_status(p,
           IF HasKey(user_sockets, page[p].username)
           THEN ClearKey(user_sockets, page[p].username) ELSE user_sockets,
           page[p].username, FALSE, << >>)
    /\ UNCHANGED << chat_rooms, room_members, messages, active_sessions,
                    chat_app, storage, now, next_sid, joins >>

\* chat_page.on_disconnect when db.commit() of update_user_status raises: the
\* exception leaves update_user_status through its finally, before the status
\* broadcast, and then on_disconnect
OnDisconnectCommitFails(p) ==
    /\ page[p].st = "connected"
    /\ Idle(p)
    /\ UsersNamed(page[p].username) # {}
    /\ page' = [page EXCEPT ![p].st = "closed"]
    /\ user_sockets' =
           IF HasKey(user_sockets, page[p].username)
           THEN ClearKey(user_sockets, page[p].username) ELSE user_sockets
    /\ task' = [task EXCEPT ![p] = Finished("OperationalError")]
    /\ trace' = <<E("on_disconnect", p, page[p].username, FALSE, NoId, NoId,
                    SocketsOf(user_sockets, page[p].username), << >>),
                  Called(page[p].username, FALSE)>>
    /\ UNCHANGED << users, chat_rooms, room_members, messages,
                    active_sessions, chat_app, storage, now, next_sid, joins >>

\* datetime.utcnow() moves on
Tick ==
    /\ now < MaxClock
    /\ now' = now + 1
    /\ trace' = << >>
    /\ UNCHANGED << users, chat_rooms, room_members, messages, user_sockets,
                    active_sessions, chat_app, storage, page, task, next_sid,
                    joins >>

\* ----------------------------------------------------------------- fan-out
\* usernames of broadcast_to_room: the users whose id is a member's, as the
\* store returns them (by id)
RECURSIVE ById(_)
ById(rows) ==
    IF rows = {} THEN << >>
    ELSE LET r == CHOOSE x \in rows : \A y \in rows : x.id <= y.id
         IN <<r.username>> \o ById(rows \ {r})

RoomUsernames(room_id) ==
    ById({u \in users :
            \E m \in room_members : m.room_id = room_id /\ m.user_id = u.id})

\* for username in usernames: if username in user_sockets: a user with no
\* socket has no await, so the loop goes on within the same step
RECURSIVE SkipIdle(_, _)
SkipIdle(reg, usernames) ==
    IF usernames = << >> THEN << >>
    ELSE IF SocketsOf(reg, Head(usernames)) # {} THEN usernames
    ELSE SkipIdle(reg, Tail(usernames))

\* The loop of broadcast_to_room over usernames, for the handler of page p:
\* up to its next await, or to its end (send_message then clears the input).
RoomLoop(p, reg, room_id, usernames, ev, targets, delivered, failed, pre) ==
    LET left == SkipIdle(reg, usernames) IN
    /\ user_sockets' = reg
    /\ IF left # << >>
       THEN /\ task' = [task EXCEPT ![p] =
                   [IdleTask EXCEPT !.pc = "room_send", !.event = ev,
                       !.room_id = room_id,
                       !.cur_user = Head(left), !.users_left = Tail(left),
                       !.socks_left = SocketsOf(reg, Head(left)),
                       !.targets = targets \cup SocketsOf(reg, Head(left)),
                       !.delivered = delivered, !.failed = failed]]
            /\ trace' = pre
       ELSE /\ task' = [task EXCEPT ![p] =
                   Finished("ok")]
            /\ trace' = Append(pre,
                   BroadcastEnd(p, ev, room_id, targets, delivered, failed))

\* broadcast_to_room(room_id, message_data)
broadcast_to_room(p, room_id, ev, pre) ==
    RoomLoop(p, user_sockets, room_id, RoomUsernames(room_id), ev, {}, {}, {},
             pre)

\* One send of either loop: the handler of page p resumes at its await with
\* the socket it was sending to; delivered is whether socket.send returned
\* (it can on a live connection only) or raised.
Sent(p, username, socket, delivered) ==
    E("send", p, username, delivered, task[p].room_id, task[p].event.msg,
      {socket}, << >>)

\* broadcast_to_room: await socket.send(message_data), and on to the next await
RoomSend(p, socket, delivered) ==
    /\ task[p].pc = "room_send"
    /\ socket \in task[p].socks_left
    /\ delivered => page[socket].st = "connected"
    /\ LET t == task[p]
           reg == IF delivered THEN user_sockets
                  ELSE Discard(user_sockets, t.cur_user, socket)
           got == IF delivered THEN t.delivered \cup {socket} ELSE t.delivered
           lost == IF delivered THEN t.failed ELSE t.failed \cup {socket}
       IN IF t.socks_left # {socket}
          THEN /\ user_sockets' = reg
               /\ task' = [task EXCEPT ![p].socks_left = @ \ {socket},
                                       ![p].delivered = got,
                                       ![p].failed = lost]
               /\ trace' = <<Sent(p, t.cur_user, socket, delivered)>>
          ELSE RoomLoop(p, reg, t.room_id, t.users_left, t.event, t.targets,
                        got, lost, <<Sent(p, t.cur_user, socket, delivered)>>)
    /\ UNCHANGED << users, chat_rooms, room_members, messages,
                    active_sessions, chat_app, storage, page, now, next_sid,
                    joins >>

\* update_user_status: await socket.send(status_data), and on to the next await
StatusSend(p, socket, delivered) ==
    /\ task[p].pc = "status_send"
    /\ socket \in task[p].socks_left
    /\ delivered => page[socket].st = "connected"
    /\ LET t == task[p]
           reg == IF delivered THEN user_sockets
                  ELSE [user_sockets EXCEPT ![t.idx].sockets = @ \ {socket}]
           got == IF delivered THEN t.delivered \cup {socket} ELSE t.delivered
           lost == IF delivered THEN t.failed ELSE t.failed \cup {socket}
       IN IF t.socks_left # {socket}
          THEN /\ user_sockets' = reg
               /\ task' = [task EXCEPT ![p].socks_left = @ \ {socket},
                                       ![p].delivered = got,
                                       ![p].failed = lost]
               /\ trace' =
                      <<Sent(p, user_sockets[t.idx].username, socket, delivered)>>
          ELSE StatusLoop(p, reg, t.idx + 1, t.size, t.event, t.targets,
                          got, lost,
                          <<Sent(p, user_sockets[t.idx].username, socket,
                                 delivered)>>)
    /\ UNCHANGED << users, chat_rooms, room_members, messages,
                    active_sessions, chat_app, storage, page, now, next_sid,
                    joins >>

\* ---------------------------------------------------------------- messages
Contents == { <<"a">>, <<" ">> }

limit == 50

Min(a, b) == IF a < b THEN a ELSE b

Reverse(s) == [i \in 1..Len(s) |-> s[Len(s) + 1 - i]]

save_message_elsewhere(content, sender_id, room_id) ==
    [id |-> NextId(messages), content |-> content, sender_id |-> sender_id,
     room_id |-> NoId, created_at |-> now]

\* save_message: the row db.commit() writes
save_message(content, sender_id, room_id) ==
    [id |-> NextId(messages), content |-> content, sender_id |-> sender_id,
     room_id |-> room_id, created_at |-> now]

\* get_room_messages: the ids of the room's messages by created_at, newest
\* first, at most limit of them; the store leaves the order of rows of equal
\* created_at open
OrderedDesc(rows) ==
    {s \in [1..Cardinality(rows) -> {r.id : r \in rows}] :
        /\ \A i, j \in DOMAIN s : i # j => s[i] # s[j]
        /\ \A i, j \in DOMAIN s : i < j =>
              \A a, b \in rows :
                  (a.id = s[i] /\ b.id = s[j]) => a.created_at >= b.created_at}

get_room_messages(room_id) ==
    {SubSeq(s, 1, Min(limit, Len(s))) :
        s \in OrderedDesc({m \in messages : m.room_id = room_id})}

\* ChatApp.load_room_messages: what the message container shows afterwards
load_room_messages(room_id) ==
    {Reverse(s) : s \in get_room_messages(room_id)}

Viewed(p, room_id, view) ==
    E("view", p, None, FALSE, room_id, NoId, {}, view)

\* ChatApp.switch_room, from a click on a room of the page's room list
SwitchRoom(p, room_id) ==
    /\ Open(p)
    /\ Idle(p)
    /\ RoomsWithId(room_id) # {}
    /\ \E u \in UsersNamed(page[p].username) :
           Memberships(u.id, room_id) # {}
    /\ chat_app' = [chat_app EXCEPT !.current_room = room_id]
    /\ page' = [page EXCEPT ![p].room = room_id]
    /\ IF chat_app.message_container
       THEN \E view \in load_room_messages(room_id) :
                trace' = <<Viewed(p, room_id, view)>>
       ELSE trace' = << >>
    /\ UNCHANGED << users, chat_rooms, room_members, messages, user_sockets,
                    active_sessions, storage, task, now, next_sid, joins >>

\* send_message found no row for current_user or for current_room
NotFound(p) ==
    E("not_found", p, chat_app.current_user, FALSE, chat_app.current_room,
      NoId, {}, << >>)

\* ChatApp.send_message, from the input of page p
SendMessage(p, text) ==
    /\ Open(p)
    /\ Idle(p)
    /\ Cardinality(messages) < MaxMessages
    /\ LET content == Strip(text)
           user == UsersNamed(chat_app.current_user)
           room == RoomsWithId(chat_app.current_room)
       IN IF \/ ~chat_app.message_input
             \/ chat_app.current_room = NoId
             \/ chat_app.current_user = None
             \/ content = << >>
          THEN /\ trace' = << >>
               /\ UNCHANGED << messages, user_sockets, task >>
          ELSE IF user = {} \/ room = {}
          THEN /\ trace' = <<NotFound(p)>>
               /\ UNCHANGED << messages, user_sockets, task >>
          ELSE \E u \in user, r \in room :
                  LET message == save_message(content, u.id, r.id) IN
                  /\ messages' = messages \cup {message}
                  /\ broadcast_to_room(p, r.id, NewMessage(message.id),
                         <<E("save_message", p, u.username, FALSE, r.id,
                             message.id, {}, << >>)>>)
    /\ UNCHANGED << users, chat_rooms, room_members, active_sessions,
                    chat_app, storage, page, now, next_sid, joins >>

\* ChatApp.send_message when db.commit() of save_message raises: the exception
\* leaves send_message through its finally, before broadcast_to_room
SendMessageCommitFails(p, text) ==
    /\ Open(p)
    /\ Idle(p)
    /\ Cardinality(messages) < MaxMessages
    /\ chat_app.message_input
    /\ chat_app.current_room # NoId
    /\ chat_app.current_user # None
    /\ Strip(text) # << >>
    /\ \E u \in UsersNamed(chat_app.current_user),
          r \in RoomsWithId(chat_app.current_room) :
           trace' = <<E("save_message_failed", p, u.username, FALSE, r.id,
                        NextId(messages), {}, << >>)>>
    /\ task' = [task EXCEPT ![p] = Finished("OperationalError")]
    /\ UNCHANGED << users, chat_rooms, room_members, messages, user_sockets,
                    active_sessions, chat_app, storage, page, now, next_sid,
                    joins >>

\* -------------------------------------------------------------------- rooms
\* The store's statements of different handlers interleave: a query and the
\* insert-and-commit that follows it are separate statements on the shared
\* SQLite file.

\* the end of join_new_room: load_user_rooms, then switch_room(room.id)
FinishJoin(p, room_id) ==
    /\ chat_app' = [chat_app EXCEPT !.current_room = room_id]
    /\ page' = [page EXCEPT ![p].room = room_id]
    /\ task' = [task EXCEPT ![p] =
           [Finished("ok") EXCEPT !.room_id = room_id,
               !.slug = task[p].slug, !.name = task[p].name,
               !.user_id = task[p].user_id]]
    /\ IF chat_app.message_container
       THEN \E view \in load_room_messages(room_id) :
                trace' = <<Viewed(p, room_id, view)>>
       ELSE trace' = << >>

\* ChatApp.join_new_room up to the lookup of get_or_create_room
JoinNewRoom(p, room_name) ==
    /\ Open(p)
    /\ Idle(p)
    /\ joins < MaxJoins
    /\ joins' = joins + 1
    /\ trace' = << >>
    /\ LET name == Strip(room_name)
           user == UsersNamed(chat_app.current_user)
           room_slug == slugify(name)
       IN IF name = << >> \/ chat_app.current_user = None \/ user = {}
          THEN task' = [task EXCEPT ![p] = Finished("none")]
          ELSE \E u \in user :
                  task' = [task EXCEPT ![p] =
                      [IdleTask EXCEPT
                          !.pc = IF RoomsWithSlug(room_slug) = {}
                                 THEN "create_room" ELSE "join_room",
                          !.name = name, !.slug = room_slug,
                          !.user_id = u.id,
                          !.room_id =
                              IF RoomsWithSlug(room_slug) = {} THEN NoId
                              ELSE (CHOOSE r \in RoomsWithSlug(room_slug) :
                                        TRUE).id]]
    /\ UNCHANGED << users, chat_rooms, room_members, messages, user_sockets,
                    active_sessions, chat_app, storage, page, now, next_sid >>

\* get_or_create_room: db.add(room); db.commit(); db.refresh(room)
CreateRoom(p) ==
    /\ task[p].pc = "create_room"
    /\ trace' = << >>
    /\ IF SlugTaken(task[p].slug)
       THEN /\ task' = [task EXCEPT ![p] =
                   [Finished("IntegrityError") EXCEPT
                       !.slug = task[p].slug, !.name = task[p].name,
                       !.user_id = task[p].user_id]]
            /\ UNCHANGED chat_rooms
       ELSE /\ chat_rooms' = chat_rooms \cup
                   {[id |-> NextId(chat_rooms), name |-> task[p].name,
                     slug |-> task[p].slug, created_by |-> task[p].user_id]}
            /\ task' = [task EXCEPT ![p].pc = "join_room",
                                    ![p].room_id = NextId(chat_rooms)]
    /\ UNCHANGED << users, room_members, messages, user_sockets,
                    active_sessions, chat_app, storage, page, now, next_sid,
                    joins >>

\* join_room: the lookup of the membership
JoinRoom(p) ==
    /\ task[p].pc = "join_room"
    /\ IF Memberships(task[p].user_id, task[p].room_id) # {}
       THEN FinishJoin(p, task[p].room_id)
       ELSE /\ task' = [task EXCEPT ![p].pc = "add_member"]
            /\ trace' = << >>
            /\ UNCHANGED << chat_app, page >>
    /\ UNCHANGED << users, chat_rooms, room_members, messages, user_sockets,
                    active_sessions, storage, now, next_sid, joins >>

\* join_room: db.add(membership); db.commit()
AddMember(p) ==
    /\ task[p].pc = "add_member"
    /\ room_members' = room_members \cup
           {[id |-> NextId(room_members), room_id |-> task[p].room_id,
             user_id |-> task[p].user_id]}
    /\ FinishJoin(p, task[p].room_id)
    /\ UNCHANGED << users, chat_rooms, messages, user_sockets,
                    active_sessions, storage, now, next_sid, joins >>

LoginNames == Usernames \cup {"mallory"}

\* Sessions and presence, from the start of the process.
Next ==
    \/ \E p \in Pages, username \in LoginNames, password \in Passwords :
           HandleLogin(p, username, password)
    \/ \E p \in Pages : Logout(p)
    \/ \E p \in Pages : ChatPage(p)
    \/ \E p \in Pages : OnConnect(p)
    \/ \E p \in Pages : OnDisconnect(p)
    \/ Tick

Spec == Init /\ [][Next]_vars

\* Logins alone: sessions are made, checked by chat_page and dropped.
NextLogin ==
    \/ \E p \in Pages, username \in LoginNames, password \in Passwords :
           HandleLogin(p, username, password)
    \/ \E p \in Pages : Logout(p)
    \/ \E p \in Pages : ChatPage(p)
    \/ Tick

SpecLogin == Init /\ [][NextLogin]_vars

\* Registrations, from the start of the process.
NextRegister ==
    \/ \E p \in Pages, username \in RegisterNames, email \in Emails,
          password, confirm \in RegisterPasswords :
           HandleRegister(p, username, email, password, confirm)
    \/ \E p \in Pages : CreateUser(p)

SpecRegister == Init /\ [][NextRegister]_vars

\* A state in which every page has logged in (page p as who[p]) and the pages
\* are in state st; current_user is that of the page loaded last.
LoggedIn(who, st, last) ==
    /\ users = {[id |-> UserId(u), username |-> u,
                 email |-> EmailOf(u),
                 hashed_password |-> Hash(PasswordOf(u)),
                 is_online |-> \E p \in Pages : who[p] = u,
                 last_seen |-> 0] : u \in Usernames}
    /\ chat_rooms = InitialRooms
    /\ room_members = InitialMembers
    /\ messages = {}
    /\ user_sockets = << >>
    /\ active_sessions = [p \in Pages |-> who[p]]
    /\ chat_app = [current_user |-> last, current_room |-> NoId,
                   message_container |-> last # None,
                   room_list_container |-> last # None,
                   message_input |-> last # None]
    /\ storage = [p \in Pages |-> [session_id |-> p, username |-> who[p]]]
    /\ page = [p \in Pages |->
                  [st |-> st, username |-> IF st = "none" THEN None ELSE who[p],
                   session_id |-> IF st = "none" THEN NoId ELSE p,
                   room |-> NoId]]
    /\ task = [p \in Pages |-> IdleTask]
    /\ now = 0
    /\ next_sid = MaxPages + 1
    /\ joins = 0
    /\ trace = << >>

\* Messages and fan-out, from a state in which every page has logged in.
InitChat == \E who \in [Pages -> Usernames] : LoggedIn(who, "none", None)

NextChat ==
    \/ \E p \in Pages : ChatPage(p)
    \/ \E p \in Pages : OnConnect(p)
    \/ \E p \in Pages : OnDisconnect(p)
    \/ \E p \in Pages, room_id \in {r.id : r \in chat_rooms} :
           SwitchRoom(p, room_id)
    \/ \E p \in Pages, text \in Contents : SendMessage(p, text)
    \/ Tick

SpecChat == InitChat /\ [][NextChat]_vars

\* The registry as on_connect is meant to fill it: every connected page is a
\* socket of its user, the keys in the order given.
Registry(who, conn, order) ==
    [i \in 1..Len(order) |->
        [username |-> order[i],
         sockets |-> {p \in conn : who[p] = order[i]}]]

KeyOrders ==
    {order \in UNION {[1..n -> Usernames] : n \in 0..Cardinality(Usernames)} :
        \A i, j \in DOMAIN order : i # j => order[i] # order[j]}

\* The messages table holds all but one of the rows the model allows, so one
\* send_message runs among the connects and disconnects.
EarlierMessages ==
    {[id |-> i, content |-> <<"a">>, sender_id |-> 1, room_id |-> 1,
      created_at |-> 0] : i \in 1..(MaxMessages - 1)}

\* Fan-out over a registry that holds sockets: user_sockets starts as any
\* registry of the connected pages, and each await of a send is a step.
InitSockets ==
    \E who \in [Pages -> Usernames], conn \in SUBSET Pages, order \in KeyOrders,
       room \in {r.id : r \in InitialRooms} :
        /\ \A p \in conn : \E i \in DOMAIN order : order[i] = who[p]
        /\ users = {[id |-> UserId(u), username |-> u,
                     email |-> EmailOf(u),
                 hashed_password |-> Hash(PasswordOf(u)),
                     is_online |-> \E p \in conn : who[p] = u,
                     last_seen |-> 0] : u \in Usernames}
        /\ chat_rooms = InitialRooms
        /\ room_members = InitialMembers
        /\ messages = EarlierMessages
        /\ user_sockets = Registry(who, conn, order)
        /\ active_sessions = [p \in Pages |-> who[p]]
        /\ chat_app = [current_user |-> who[1], current_room |-> room,
                       message_container |-> TRUE,
                       room_list_container |-> TRUE, message_input |-> TRUE]
        /\ storage = [p \in Pages |-> [session_id |-> p, username |-> who[p]]]
        /\ page = [p \in Pages |->
                      [st |-> IF p \in conn THEN "connected" ELSE "loaded",
                       username |-> who[p], session_id |-> p, room |-> NoId]]
        /\ task = [p \in Pages |-> IdleTask]
        /\ now = 0
        /\ next_sid = MaxPages + 1
        /\ joins = 0
        /\ trace = << >>

NextSockets ==
    \/ \E p \in Pages : OnConnect(p)
    \/ \E p \in Pages : OnDisconnect(p)
    \/ \E p \in Pages, text \in Contents : SendMessage(p, text)
    \/ \E p, socket \in Pages : RoomSend(p, socket, TRUE)
    \/ \E p, socket \in Pages : RoomSend(p, socket, FALSE)
    \/ \E p, socket \in Pages : StatusSend(p, socket, TRUE)
    \/ \E p, socket \in Pages : StatusSend(p, socket, FALSE)

SpecSockets == InitSockets /\ [][NextSockets]_vars

\* Connects and disconnects over a registry that holds sockets, the commit of
\* a disconnect's presence update failing or not.
NextDisconnect ==
    \/ \E p \in Pages : OnConnect(p)
    \/ \E p \in Pages : OnDisconnect(p)
    \/ \E p \in Pages : OnDisconnectCommitFails(p)
    \/ \E p, socket \in Pages : StatusSend(p, socket, TRUE)
    \/ \E p, socket \in Pages : StatusSend(p, socket, FALSE)

SpecDisconnect == InitSockets /\ [][NextDisconnect]_vars

\* Status broadcasts that overlap: a status loop suspended at a send while a
\* page of a user with no key connects takes a page to run the loop, a page
\* to send to and a page to connect, so this specification has one page more.
StatusPages == Pages \cup {MaxPages + 1}

InitStatus ==
    \E who \in [StatusPages -> Usernames], conn \in SUBSET StatusPages,
       order \in KeyOrders :
        /\ \A p \in conn : \E i \in DOMAIN order : order[i] = who[p]
        /\ users = {[id |-> UserId(u), username |-> u,
                     email |-> EmailOf(u),
                     hashed_password |-> Hash(PasswordOf(u)),
                     is_online |-> \E p \in conn : who[p] = u,
                     last_seen |-> 0] : u \in Usernames}
        /\ chat_rooms = InitialRooms
        /\ room_members = InitialMembers
        /\ messages = {}
        /\ user_sockets = Registry(who, conn, order)
        /\ active_sessions = [p \in StatusPages |-> who[p]]
        /\ chat_app = [current_user |-> who[1], current_room |-> NoId,
                       message_container |-> TRUE,
                       room_list_container |-> TRUE, message_input |-> TRUE]
        /\ storage = [p \in StatusPages |->
                         [session_id |-> p, username |-> who[p]]]
        /\ page = [p \in StatusPages |->
                      [st |-> IF p \in conn THEN "connected" ELSE "loaded",
                       username |-> who[p], session_id |-> p, room |-> NoId]]
        /\ task = [p \in StatusPages |-> IdleTask]
        /\ now = 0
        /\ next_sid = MaxPages + 2
        /\ joins = 0
        /\ trace = << >>

NextStatus ==
    \/ \E p \in StatusPages : OnConnect(p)
    \/ \E p \in StatusPages : OnDisconnect(p)
    \/ \E p, socket \in StatusPages : StatusSend(p, socket, TRUE)
    \/ \E p, socket \in StatusPages : StatusSend(p, socket, FALSE)

SpecStatus == InitStatus /\ [][NextStatus]_vars

\* send_message over a registry that holds sockets, for every user and room
\* chat_app can name: rows of the store can be removed outside the application
\* (the SQLite file is shared), so the user or the room may have no row.
RoomIds == {r.id : r \in InitialRooms} \cup {NextId(InitialRooms)}

InitSend ==
    \E who \in [Pages -> Usernames], conn \in SUBSET Pages, order \in KeyOrders,
       current_user \in LoginNames, room \in RoomIds :
        /\ \A p \in conn : \E i \in DOMAIN order : order[i] = who[p]
        /\ users = {[id |-> UserId(u), username |-> u,
                     email |-> EmailOf(u),
                     hashed_password |-> Hash(PasswordOf(u)),
                     is_online |-> \E p \in conn : who[p] = u,
                     last_seen |-> 0] : u \in Usernames}
        /\ chat_rooms = InitialRooms
        /\ room_members = InitialMembers
        /\ messages = EarlierMessages
        /\ user_sockets = Registry(who, conn, order)
        /\ active_sessions = [p \in Pages |-> who[p]]
        /\ chat_app = [current_user |-> current_user, current_room |-> room,
                       message_container |-> TRUE,
                       room_list_container |-> TRUE, message_input |-> TRUE]
        /\ storage = [p \in Pages |-> [session_id |-> p, username |-> who[p]]]
        /\ page = [p \in Pages |->
                      [st |-> IF p \in conn THEN "connected" ELSE "loaded",
                       username |-> who[p], session_id |-> p, room |-> NoId]]
        /\ task = [p \in Pages |-> IdleTask]
        /\ now = 0
        /\ next_sid = MaxPages + 1
        /\ joins = 0
        /\ trace = << >>

NextSend ==
    \/ \E p \in Pages, text \in Contents : SendMessage(p, text)
    \/ \E p \in Pages, text \in Contents : SendMessageCommitFails(p, text)
    \/ \E p, socket \in Pages : RoomSend(p, socket, TRUE)
    \/ \E p, socket \in Pages : RoomSend(p, socket, FALSE)

SpecSend == InitSend /\ [][NextSend]_vars

\* Room creation and joining, from a state in which every page has logged in
\* and loaded the chat page.
InitRooms ==
    \E who \in [Pages -> Usernames], last \in Pages :
        LoggedIn(who, "loaded", who[last])

NextRooms ==
    \/ \E p \in Pages, room_name \in RoomNames : JoinNewRoom(p, room_name)
    \/ \E p \in Pages : CreateRoom(p)
    \/ \E p \in Pages : JoinRoom(p)
    \/ \E p \in Pages : AddMember(p)

SpecRooms == InitRooms /\ [][NextRooms]_vars

\* ================================================================== claims

\* join_new_room has run to its end, or to an exception, on page p
JoinEnded(p) == task[p].pc = "idle" /\ task[p].name # << >>

\* C1: in every reachable state no two chat_rooms rows have the same slug,
\* whatever the interleaving of the lookups and inserts of get_or_create_room.
C1_UniqueSlug ==
    \A r1, r2 \in chat_rooms : r1.slug = r2.slug => r1 = r2

\* Two calls looked the same slug up and found no room; one has inserted the
\* room and the other's insert was refused.
C1_RaceRefused ==
    \E p, q \in Pages :
        /\ p # q
        /\ JoinEnded(p) /\ task[p].result = "IntegrityError"
        /\ task[q].slug = task[p].slug
        /\ task[q].room_id # NoId
        /\ \E r \in chat_rooms : r.id = task[q].room_id /\ r.slug = task[p].slug

\* C2: two get_or_create_room calls with names of the same slug both end
\* without an error and return the same room id, interleaved or not.
C2_SameSlugSameRoom ==
    /\ \A p \in Pages : task[p].result # "IntegrityError"
    /\ \A p, q \in Pages :
           (JoinEnded(p) /\ JoinEnded(q) /\ task[p].slug = task[q].slug)
               => task[p].room_id = task[q].room_id

\* C3: after any interleaving of join_room(u, r) calls there is one
\* room_members row for (r, u), and every join ended as a success.
C3_OneMembership ==
    /\ \A m1, m2 \in room_members :
           (m1.user_id = m2.user_id /\ m1.room_id = m2.room_id) => m1 = m2
    /\ \A p \in Pages :
           (JoinEnded(p) /\ task[p].result = "ok")
               => Memberships(task[p].user_id, task[p].room_id) # {}

\* the connections of user u that are open
Live(u) == {p \in Pages : page[p].st = "connected" /\ page[p].username = u}

IsMember(u, room_id) ==
    \E x \in UsersNamed(u) : Memberships(x.id, room_id) # {}

Count(tr, e) == Cardinality({i \in DOMAIN tr : tr[i] = e})

\* the latest step ended a broadcast_to_room: its entry of trace
RoomBroadcastEnds ==
    {e \in {trace[i] : i \in DOMAIN trace} :
        e.op = "broadcast_end" /\ e.room # NoId}

\* C4: broadcast_to_room(r, e) delivers e to every open connection of every
\* member of r, to no connection of a non-member, and ends without an error
\* when a member has no connection.
C4_DeliversToMembers ==
    \A e \in RoomBroadcastEnds :
        /\ task[e.page].result = "ok"
        /\ \A u \in Usernames : IsMember(u, e.room) => Live(u) \subseteq e.socks
        /\ \A s \in e.socks : IsMember(page[s].username, e.room)

\* C5: an offline user_status event is broadcast exactly once in the step that
\* removes a user's last open connection, and in no other step.
C5_OfflineOncePerLastDisconnect ==
    [][\A u \in Usernames :
          Count(trace', StatusEvent(u, FALSE)) =
              IF Live(u) # {} /\ Live(u)' = {} THEN 1 ELSE 0]_vars

\* C6: update_user_status is called once with True in the step that opens a
\* user's first connection, once with False in the step that closes the last
\* one, and in no other step.
C6_OncePerEdge ==
    [][\A u \in Usernames :
          /\ Count(trace', Called(u, TRUE)) =
                 IF Live(u) = {} /\ Live(u)' # {} THEN 1 ELSE 0
          /\ Count(trace', Called(u, FALSE)) =
                 IF Live(u) # {} /\ Live(u)' = {} THEN 1 ELSE 0]_vars

C8_SenderAndRoomOfThePage ==
    \A i \in DOMAIN trace :
        (trace[i].op = "save_message" /\ page[trace[i].page].room # NoId) =>
            \E m \in messages :
                /\ m.id = trace[i].msg
                /\ \E u \in UsersNamed(page[trace[i].page].username) :
                       m.sender_id = u.id
                /\ m.room_id = page[trace[i].page].room

\* C9: in every view load_room_messages produces, two messages of one sender
\* appear in the order they were saved in (their ids), also when their
\* created_at are equal.
C9_CreationOrder ==
    \A i \in DOMAIN trace :
        trace[i].op = "view" =>
            \A a, b \in DOMAIN trace[i].view :
                \A m1, m2 \in messages :
                    (/\ m1.id = trace[i].view[a] /\ m2.id = trace[i].view[b]
                     /\ m1.sender_id = m2.sender_id /\ m1.id < m2.id)
                        => a < b

\* C10: when one of two open connections of a user disconnects, the other
\* stays in user_sockets.
C10_OthersStayRegistered ==
    [][\A p, q \in Pages :
          (/\ p # q
           /\ page[p].username = page[q].username
           /\ page[p].st = "connected" /\ page[q].st = "connected"
           /\ page'[p].st = "closed" /\ page'[q].st = "connected")
              => q \in SocketsOf(user_sockets', page[q].username)]_vars

\* C11: a disconnect of a page whose user has no socket in user_sockets (none
\* was ever registered, or all were removed) is a no-op: user_sockets and the
\* users table stay as they are, no user_status event is emitted and the
\* handler ends without an error.
C11_DisconnectIsNoOp ==
    [][\A p \in Pages :
          (/\ page[p].st = "connected" /\ page'[p].st = "closed"
           /\ SocketsOf(user_sockets, page[p].username) = {})
              => /\ user_sockets' = user_sockets
                 /\ users' = users
                 /\ \A i \in DOMAIN trace' : trace'[i].op # "user_status"
                 /\ task'[p].result \in {"none", "ok"}]_vars

\* the credentials a login attempt can fail on
UnknownUser(username) == \A u \in users : u.username # username

WrongPassword(username, password) ==
    \E u \in users :
        u.username = username /\ u.hashed_password # Hash(password)

\* C12: a login with an unknown username and a login with a known username
\* and a wrong password end the same way: authenticate_user returns None, the
\* one generic error text is shown, no session is added and no presence
\* state changes.
C12_FailuresIndistinguishable ==
    [][\A i \in DOMAIN trace' :
          (/\ trace'[i].op = "handle_login"
           /\ \/ UnknownUser(trace'[i].username)
              \/ WrongPassword(trace'[i].username, trace'[i].view[1]))
              => /\ authenticate_user(trace'[i].username, trace'[i].view[1]) = {}
                 /\ trace' = <<trace'[i],
                               ErrorLabel(trace'[i].page,
                                          "Invalid username or password")>>
                 /\ active_sessions' = active_sessions
                 /\ storage' = storage
                 /\ users' = users
                 /\ user_sockets' = user_sockets]_vars

\* A login with the name of a user and a wrong password has been refused,
\* while a session of another login exists.
C12_WrongPasswordRefused ==
    /\ \E i \in DOMAIN trace :
           /\ trace[i].op = "handle_login"
           /\ WrongPassword(trace[i].username, trace[i].view[1])
    /\ \E i \in DOMAIN trace : trace[i].op = "error_label"
    /\ DOMAIN active_sessions # {}

\* the registration a trace entry is about finds its username or email taken
Duplicate(e) ==
    \E u \in users : u.username = e.username \/ <<u.email>> = e.view

\* C13: no two users rows ever share a username or an email, and a
\* registration (its query, or its insert) that meets a row of its username or
\* email shows an error and leaves the users table as it is.
C13_UniqueUsers ==
    /\ [](\A u1, u2 \in users :
             (u1.username = u2.username \/ u1.email = u2.email) => u1 = u2)
    /\ [][\A i \in DOMAIN trace' :
             (trace'[i].op \in {"handle_register", "create_user"}
              /\ Duplicate(trace'[i]))
                 => /\ users' = users
                    /\ \E j \in DOMAIN trace' : trace'[j].op = "error_label"]_vars

\* Two registrations found no user of their email; one has inserted its row
\* and the insert of the other has been refused.
C13_RaceRefused ==
    \E i, j \in DOMAIN trace :
        /\ trace[i].op = "create_user"
        /\ trace[j].op = "error_label"
        /\ \E u \in users :
               u.username # trace[i].username /\ <<u.email>> = trace[i].view

\* chat_app names a user or a room that has no row in the store
Missing ==
    \/ \A u \in users : u.username # chat_app.current_user
    \/ \A r \in chat_rooms : r.id # chat_app.current_room

\* C14: while current_user or current_room has no row, no step (a
\* send_message among them) adds a messages row, starts a broadcast or sends
\* an event to a socket.
C14_NoPartialEffect ==
    [][Missing =>
          /\ messages' = messages
          /\ task' = task
          /\ \A i \in DOMAIN trace' :
                 trace'[i].op \notin {"save_message", "send", "broadcast_end"}]_vars

\* send_message has found no row for the user or the room, while sockets of
\* users are registered.
C14_SendFoundNoRow ==
    /\ \E i \in DOMAIN trace : trace[i].op = "not_found"
    /\ \E u \in Usernames : SocketsOf(user_sockets, u) # {}

\* C15: every send of a new_message event is for a message that every read
\* of the room's recent messages returns at that time, and a send_message
\* whose commit fails starts no broadcast and leaves no row.
C15_CommittedBeforeDelivery ==
    /\ \A i \in DOMAIN trace :
           (trace[i].op = "send" /\ trace[i].msg # NoId) =>
               \A view \in get_room_messages(trace[i].room) :
                   \E k \in DOMAIN view : view[k] = trace[i].msg
    /\ \A i \in DOMAIN trace :
           trace[i].op = "save_message_failed" =>
               /\ Idle(trace[i].page)
               /\ Len(trace) = 1
               /\ \A m \in messages : m.id # trace[i].msg

\* A new_message event has been delivered to a socket.
C15_Delivered ==
    \E i \in DOMAIN trace :
        trace[i].op = "send" /\ trace[i].flag /\ trace[i].msg # NoId

\* C16: when the presence update of a disconnect fails with a storage error,
\* the sockets the user had in user_sockets are removed all the same.
C16_CleanupDespiteFailure ==
    \A i \in DOMAIN trace :
        (/\ trace[i].op = "on_disconnect"
         /\ task[trace[i].page].result = "OperationalError")
            => SocketsOf(user_sockets, trace[i].username) = {}

\* A disconnect of a user with registered sockets has ended in the storage
\* error of its presence update.
C16_FailedWithSockets ==
    \E i \in DOMAIN trace :
        /\ trace[i].op = "on_disconnect"
        /\ trace[i].socks # {}
        /\ task[trace[i].page].result = "OperationalError"
        /\ \E u \in users : u.username = trace[i].username /\ u.is_online

\* C17: while a page of user u is connected and no handler is in progress,
\* user_sockets holds a socket for u.
C17_RegisteredWhileConnected ==
    (\A p \in Pages : Idle(p)) =>
        \A u \in Usernames :
            Live(u) # {} => SocketsOf(user_sockets, u) # {}

\* C18: in every state with no handler in progress, a user with an open
\* connection has is_online true in the users table (one half of: is_online
\* is true if and only if the user has an open connection).
C18_OnlineWhileConnected ==
    (\A p \in Pages : Idle(p)) =>
        \A u \in users : Live(u.username) # {} => u.is_online

\* the latest step ended a status loop of update_user_status: its entry
StatusBroadcastEnds ==
    {e \in {trace[i] : i \in DOMAIN trace} :
        e.op = "broadcast_end" /\ e.room = NoId}

====
